---- MODULE Spec2Model ----
(***************************************************************************)
(* Model of the channelx Aggregator (src/aggregator.go): a bounded queue,  *)
(* a pool of workers each running the batch/linger loop of work(), the     *)
(* dispatch path batchProcess(), and the two shutdown calls Stop() and     *)
(* SafeStop().  Every goroutine is a process with a program counter; the   *)
(* sync.WaitGroup is the counter wg together with the state of the one     *)
(* caller blocked in Wait().                                               *)
(***************************************************************************)
EXTENDS Integers, Sequences, FiniteSets, TLC

\* ------------------------------------------------------------------ bounds
MaxItems == 3          \* items the producers submit in one run
MaxWorkers == 2        \* largest option.Workers
MaxBatchSize == 3      \* largest option.BatchSize
MaxBuffer == 2         \* largest configured option.ChannelBufferSize
MaxFailures == 1       \* batch handler calls that fail or panic in one run

WorkerIds == 1..MaxWorkers
Items == 1..MaxItems

VARIABLES
    option,      \* agt.option after NewAggregator
    eventQueue,  \* agt.eventQueue: buffered channel content, oldest first
    quit,        \* agt.quit is closed
    wg,          \* agt.wg counter
    started,     \* Start() has been called
    wpc,         \* position of each worker goroutine
    batch,       \* the local slice batch of each work() frame
    timer,       \* the local lingerTimer of each work() frame
    spc,         \* position of the goroutine calling Stop()/SafeStop()
    stopCall,    \* which shutdown call was made
    nextItem,    \* next item a producer submits
    ppc,         \* position of the goroutine calling TryEnqueue
    pitem,       \* the item that goroutine is submitting (0: none)
    handlers,    \* error-handler goroutines that have not finished
    handled,     \* history: the items of each `go agt.option.ErrorHandler(...)`
    dispatched,  \* history: each worker's calls of agt.batchProcessor, in order
    enqueued,    \* history: items sent to agt.eventQueue, in send order
    atQuit,      \* history: items in the queue when Stop() closed quit
    seen         \* history: kinds of event that have happened

vars == <<option, eventQueue, quit, wg, started, wpc, batch, timer, spc,
          stopCall, nextItem, ppc, pitem, handlers, handled, dispatched,
          enqueued, atQuit, seen>>

\* ------------------------------------------------------------- pure helpers
SeqToSet(s) == {s[i] : i \in 1..Len(s)}

\* NewAggregator: the buffer size is raised to the number of workers.
NewAggregatorUnclamped(batchSize, workers, bufferSize, errorHandler) ==
    [BatchSize         |-> batchSize,
     Workers           |-> workers,
     ChannelBufferSize |-> bufferSize,
     ErrorHandler      |-> errorHandler]
NewAggregator(batchSize, workers, bufferSize, errorHandler) ==
    [BatchSize         |-> batchSize,
     Workers           |-> workers,
     ChannelBufferSize |-> IF bufferSize <= workers THEN workers ELSE bufferSize,
     ErrorHandler      |-> errorHandler]

Workers == 1..option.Workers

\* time.Timer as work() uses it: "stopped" (not running, lingerTimer.C empty),
\* "armed" (running for option.LingerTime) or "fired" (expired, the expiry
\* waiting in lingerTimer.C).
TimerLeftRunning == "armed"
TimerStop == "stopped"
TimerReset == "armed"

\* len(agt.eventQueue) == cap(agt.eventQueue): a send would not proceed.
QueueFull == Len(eventQueue) >= option.ChannelBufferSize

\* `len(agt.eventQueue) == 0` in SafeStop.
QueueDrainedUnchecked == TRUE
QueueDrained == Len(eventQueue) = 0

\* wg.Done() called n times in a row by one goroutine: the counter drops and a
\* caller blocked in wg.Wait() is released when it reaches zero.
WgAfterDone(n) == wg - n
SpcAfterDone(n) == IF spc = "waiting" /\ wg - n = 0 THEN "returned" ELSE spc

\* agt.batchProcessor(items) is entered by worker w: one more call in the
\* worker's history.
Call(w, items, path) ==
    [dispatched EXCEPT ![w] =
        Append(@, [items |-> items, path |-> path, result |-> "running"])]

\* The call worker w is in ends with result r.
Return(w, r) ==
    [dispatched EXCEPT ![w][Len(dispatched[w])].result = r]

\* All calls made so far, and those that ended with result r.
Calls == UNION {{<<w, k>> : k \in 1..Len(dispatched[w])} : w \in WorkerIds}
Failures == Cardinality({c \in Calls : dispatched[c[1]][c[2]].result \in {"err", "panic"}})

\* `if batchSize < agt.option.BatchSize`: the batch is not full yet.
BelowBatchSizeOffByOne(batchSize) == batchSize <= option.BatchSize
BelowBatchSize(batchSize) == batchSize < option.BatchSize

\* `if batchSize == 1`: the item just appended is the first of its batch.
FirstItemOrLater(batchSize) == batchSize >= 1
FirstItem(batchSize) == batchSize = 1

\* `if len(batch) != 0` in the quit case: there is a partial batch to flush.
QuitFlushesOnlySeveral(items) == Len(items) > 1
QuitFlushes(items) == Len(items) # 0

\* `batch = make([]interface{}, 0, agt.option.BatchSize)` after a dispatch.
KeepBatch(items) == items
NewBatch(items) == <<>>

Processing == {"process_size", "process_linger", "process_quit"}

\* `batch = append(batch, req)`.
PrependItem(items, req) == <<req>> \o items
AppendItem(items, req) == Append(items, req)

\* Worker w is at the select of its loop.  Nothing but its own position
\* decides that: the workers share the queue and the quit channel only.
ReadyWhenPoolIdle(w) ==
    wpc[w] = "select" /\ \A v \in WorkerIds : wpc[v] \notin Processing
Ready(w) == wpc[w] = "select"

\* The recover handler of work(): `agt.work(index)` is called again.
NoRestart == "done"
Restart == "spawned"

\* --------------------------------------------------------------------- Init
Init ==
    /\ \E b \in 1..MaxBatchSize, n \in 1..MaxWorkers, c \in 0..MaxBuffer,
          e \in BOOLEAN :
          option = NewAggregator(b, n, c, e)
    /\ eventQueue = <<>>
    /\ quit = FALSE
    /\ wg = 0
    /\ started = FALSE
    /\ wpc = [w \in WorkerIds |-> "idle"]
    /\ batch = [w \in WorkerIds |-> <<>>]
    /\ timer = [w \in WorkerIds |-> TimerStop]
    /\ spc = "idle"
    /\ stopCall = "none"
    /\ nextItem = 1
    /\ ppc = "idle"
    /\ pitem = 0
    /\ handlers = 0
    /\ handled = <<>>
    /\ dispatched = [w \in WorkerIds |-> <<>>]
    /\ enqueued = <<>>
    /\ atQuit = {}
    /\ seen = {}

\* ---------------------------------------------------------------- producers
\* Enqueue: the send completes once the channel has room.
Enqueue ==
    /\ nextItem <= MaxItems
    /\ ~QueueFull
    /\ eventQueue' = Append(eventQueue, nextItem)
    /\ enqueued' = Append(enqueued, nextItem)
    /\ nextItem' = nextItem + 1
    /\ seen' = seen \cup (IF stopCall = "SafeStop" THEN {"late"} ELSE {})
    /\ UNCHANGED <<option, quit, wg, started, wpc, batch, timer, spc, stopCall,
                   ppc, pitem, handlers, handled, dispatched, atQuit>>

\* TryEnqueue, first select: the send proceeds and the call is about to
\* return true, or the default case yields the processor.
TryEnqueue ==
    /\ ppc = "idle"
    /\ nextItem <= MaxItems
    /\ nextItem' = nextItem + 1
    /\ pitem' = nextItem
    /\ seen' = seen \cup (IF stopCall = "SafeStop" THEN {"late"} ELSE {})
    /\ IF ~QueueFull
          THEN /\ eventQueue' = Append(eventQueue, nextItem)
               /\ enqueued' = Append(enqueued, nextItem)
               /\ ppc' = "true"
          ELSE /\ ppc' = "retry"
               /\ UNCHANGED <<eventQueue, enqueued>>
    /\ UNCHANGED <<option, quit, wg, started, wpc, batch, timer, spc, stopCall,
                   handlers, handled, dispatched, atQuit>>

\* The second select without its default case: a plain blocking send.
TryEnqueueRetryBlocking ==
    /\ ppc = "retry"
    /\ ~QueueFull
    /\ eventQueue' = Append(eventQueue, pitem)
    /\ enqueued' = Append(enqueued, pitem)
    /\ ppc' = "true"
    /\ seen' = seen \cup (IF stopCall = "SafeStop" THEN {"late"} ELSE {})
    /\ UNCHANGED <<option, quit, wg, started, wpc, batch, timer, spc, stopCall,
                   nextItem, pitem, handlers, handled, dispatched, atQuit>>

\* TryEnqueue, second select after runtime.Gosched(): the send proceeds and
\* the call is about to return true, or the default case is about to return
\* false.
TryEnqueueRetry ==
    /\ ppc = "retry"
    /\ IF ~QueueFull
          THEN /\ eventQueue' = Append(eventQueue, pitem)
               /\ enqueued' = Append(enqueued, pitem)
               /\ ppc' = "true"
          ELSE /\ ppc' = "false"
               /\ UNCHANGED <<eventQueue, enqueued>>
    /\ seen' = seen \cup (IF stopCall = "SafeStop" THEN {"late"} ELSE {})
    /\ UNCHANGED <<option, quit, wg, started, wpc, batch, timer, spc, stopCall,
                   nextItem, pitem, handlers, handled, dispatched, atQuit>>

\* TryEnqueue returns its result to the caller.
TryEnqueueReturn ==
    /\ ppc \in {"true", "false"}
    /\ ppc' = "idle"
    /\ pitem' = 0
    /\ UNCHANGED <<option, eventQueue, quit, wg, started, wpc, batch, timer,
                   spc, stopCall, nextItem, handlers, handled, dispatched, enqueued,
                   atQuit, seen>>

\* ------------------------------------------------------------------ Start
\* Start: one `go agt.work(index)` per worker; no goroutine has run yet.
Start ==
    /\ ~started
    /\ started' = TRUE
    /\ wpc' = [w \in WorkerIds |-> IF w \in Workers THEN "spawned" ELSE "idle"]
    /\ UNCHANGED <<option, eventQueue, quit, wg, batch, timer, spc, stopCall,
                   nextItem, ppc, pitem, handlers, handled, dispatched, enqueued, atQuit,
                   seen>>

\* ----------------------------------------------------------------- workers
\* work(): wg.Add(1), a fresh batch and a stopped, drained timer.
WorkBegin(w) ==
    /\ wpc[w] = "spawned"
    /\ wg' = wg + 1
    /\ batch' = [batch EXCEPT ![w] = <<>>]
    /\ timer' = [timer EXCEPT ![w] = TimerStop]
    /\ wpc' = [wpc EXCEPT ![w] = "select"]
    /\ UNCHANGED <<option, eventQueue, quit, started, spc, stopCall, nextItem,
                   ppc, pitem, handlers, handled, dispatched, enqueued, atQuit, seen>>

\* case req := <-agt.eventQueue
Receive(w) ==
    /\ Ready(w)
    /\ eventQueue # <<>>
    /\ eventQueue' = Tail(eventQueue)
    /\ LET items == AppendItem(batch[w], Head(eventQueue))
           batchSize == Len(items)
       IN  /\ batch' = [batch EXCEPT ![w] = items]
           /\ IF BelowBatchSize(batchSize)
                 THEN /\ timer' = IF FirstItem(batchSize)
                                     THEN [timer EXCEPT ![w] = TimerReset]
                                     ELSE timer
                      /\ UNCHANGED <<wg, wpc, dispatched>>
                 ELSE /\ wg' = wg + 1
                      /\ dispatched' = Call(w, items, "size")
                      /\ wpc' = [wpc EXCEPT ![w] = "process_size"]
                      /\ UNCHANGED timer
    /\ UNCHANGED <<option, quit, started, spc, stopCall, nextItem, ppc, pitem,
                   handlers, handled, enqueued, atQuit, seen>>

\* option.LingerTime has passed since the timer was armed: the expiry is sent
\* to lingerTimer.C.
TimerFire(w) ==
    /\ timer[w] = "armed"
    /\ timer' = [timer EXCEPT ![w] = "fired"]
    /\ UNCHANGED <<option, eventQueue, quit, wg, started, wpc, batch, spc,
                   stopCall, nextItem, ppc, pitem, handlers, handled, dispatched,
                   enqueued, atQuit, seen>>

\* case <-lingerTimer.C
LingerExpire(w) ==
    /\ Ready(w)
    /\ timer[w] = "fired"
    /\ timer' = [timer EXCEPT ![w] = TimerStop]
    /\ IF Len(batch[w]) = 0
          THEN UNCHANGED <<wg, wpc, dispatched, seen>>
          ELSE /\ wg' = wg + 1
               /\ dispatched' = Call(w, batch[w], "linger")
               /\ wpc' = [wpc EXCEPT ![w] = "process_linger"]
               /\ UNCHANGED seen
    /\ UNCHANGED <<option, eventQueue, quit, started, batch, spc, stopCall,
                   nextItem, ppc, pitem, handlers, handled, enqueued, atQuit>>

\* case <-agt.quit
QuitObserved(w) ==
    /\ Ready(w)
    /\ quit
    /\ IF QuitFlushes(batch[w])
          THEN /\ wg' = wg + 1
               /\ dispatched' = Call(w, batch[w], "quit")
               /\ wpc' = [wpc EXCEPT ![w] = "process_quit"]
               /\ UNCHANGED <<timer, spc>>
          ELSE \* break loop; deferred lingerTimer.Stop() and wg.Done()
               /\ wg' = WgAfterDone(1)
               /\ spc' = SpcAfterDone(1)
               /\ timer' = [timer EXCEPT ![w] = TimerStop]
               /\ wpc' = [wpc EXCEPT ![w] = "done"]
               /\ UNCHANGED dispatched
    /\ UNCHANGED <<option, eventQueue, quit, started, batch, stopCall,
                   nextItem, ppc, pitem, handlers, handled, enqueued, atQuit, seen>>

\* agt.batchProcessor(items) returns nil or an error.  batchProcess starts the
\* error-handler goroutine if the call failed and a handler is configured, and
\* returns (deferred wg.Done()); work() goes on after the call: the size path
\* stops the timer, draining lingerTimer.C if Stop() reports false, and takes
\* a new batch; the linger path takes a new batch; the quit path leaves the
\* loop and runs the deferred lingerTimer.Stop() and wg.Done().
ProcessReturn(w, err) ==
    /\ wpc[w] \in Processing
    /\ err => Failures < MaxFailures
    /\ dispatched' = Return(w, IF err THEN "err" ELSE "ok")
    /\ handlers' = IF err /\ option.ErrorHandler THEN handlers + 1 ELSE handlers
    /\ handled' = IF err /\ option.ErrorHandler
                     THEN Append(handled, batch[w])
                     ELSE handled
    /\ CASE wpc[w] = "process_size" ->
              IF timer[w] = "stopped"
                 THEN \* Stop() is false and nothing is ever sent to the channel
                      /\ wpc' = [wpc EXCEPT ![w] = "drain"]
                      /\ wg' = WgAfterDone(1)
                      /\ spc' = SpcAfterDone(1)
                      /\ UNCHANGED <<batch, timer>>
                 ELSE /\ wpc' = [wpc EXCEPT ![w] = "select"]
                      /\ timer' = [timer EXCEPT ![w] = TimerStop]
                      /\ batch' = [batch EXCEPT ![w] = NewBatch(batch[w])]
                      /\ wg' = WgAfterDone(1)
                      /\ spc' = SpcAfterDone(1)
         [] wpc[w] = "process_linger" ->
              /\ wpc' = [wpc EXCEPT ![w] = "select"]
              /\ batch' = [batch EXCEPT ![w] = NewBatch(batch[w])]
              /\ wg' = WgAfterDone(1)
              /\ spc' = SpcAfterDone(1)
              /\ UNCHANGED timer
         [] wpc[w] = "process_quit" ->
              /\ wpc' = [wpc EXCEPT ![w] = "done"]
              /\ timer' = [timer EXCEPT ![w] = TimerStop]
              /\ wg' = WgAfterDone(2)
              /\ spc' = SpcAfterDone(2)
              /\ UNCHANGED batch
    /\ UNCHANGED <<option, eventQueue, quit, started, stopCall, nextItem, ppc,
                   pitem, enqueued, atQuit, seen>>

\* agt.batchProcessor(items) panics: batchProcess unwinds (wg.Done()), work()
\* unwinds (lingerTimer.Stop(), wg.Done()) and the recover handler calls
\* agt.work(index) again, which has yet to run its wg.Add(1).
ProcessPanic(w) ==
    /\ wpc[w] \in Processing
    /\ Failures < MaxFailures
    /\ dispatched' = Return(w, "panic")
    /\ wg' = WgAfterDone(2)
    /\ spc' = SpcAfterDone(2)
    /\ timer' = [timer EXCEPT ![w] = TimerStop]
    /\ batch' = [batch EXCEPT ![w] = <<>>]
    /\ wpc' = [wpc EXCEPT ![w] = Restart]
    /\ UNCHANGED <<option, eventQueue, quit, started, stopCall,
                   nextItem, ppc, pitem, handlers, handled, enqueued, atQuit, seen>>

\* An error-handler goroutine runs to its end.
ErrorHandlerDone ==
    /\ handlers > 0
    /\ handlers' = handlers - 1
    /\ UNCHANGED <<handled, option, eventQueue, quit, wg, started, wpc, batch, timer,
                   spc, stopCall, nextItem, ppc, pitem, dispatched, enqueued,
                   atQuit, seen>>

\* ---------------------------------------------------------------- shutdown
\* Stop: close(agt.quit); wg.Wait() is still to be called.
Stop ==
    /\ started
    /\ spc = "idle"
    /\ quit' = TRUE
    /\ stopCall' = "Stop"
    /\ spc' = "wait"
    /\ atQuit' = SeqToSet(eventQueue)
    /\ UNCHANGED <<option, eventQueue, wg, started, wpc, batch, timer,
                   nextItem, ppc, pitem, handlers, handled, dispatched, enqueued, seen>>

\* SafeStop: the first len(agt.eventQueue) == 0 test.
SafeStop ==
    /\ started
    /\ spc = "idle"
    /\ stopCall' = "SafeStop"
    /\ spc' = IF QueueDrained THEN "close" ELSE "poll"
    /\ UNCHANGED <<option, eventQueue, quit, wg, started, wpc, batch, timer,
                   nextItem, ppc, pitem, handlers, handled, dispatched, enqueued, atQuit,
                   seen>>

\* SafeStop: one tick of the 50ms ticker and its len(agt.eventQueue) == 0 test.
SafeStopPoll ==
    /\ spc = "poll"
    /\ spc' = IF QueueDrained THEN "close" ELSE "poll"
    /\ UNCHANGED <<option, eventQueue, quit, wg, started, wpc, batch, timer,
                   stopCall, nextItem, ppc, pitem, handlers, handled, dispatched,
                   enqueued, atQuit, seen>>

\* SafeStop: close(agt.quit) after a test that found the queue empty.
SafeStopClose ==
    /\ spc = "close"
    /\ quit' = TRUE
    /\ spc' = "wait"
    /\ UNCHANGED <<option, eventQueue, wg, started, wpc, batch, timer,
                   stopCall, nextItem, ppc, pitem, handlers, handled, dispatched,
                   enqueued, atQuit, seen>>

\* agt.wg.Wait() is called: it returns at once if the counter is zero and
\* blocks until a wg.Done() brings it to zero otherwise.
Wait ==
    /\ spc = "wait"
    /\ spc' = IF wg = 0 THEN "returned" ELSE "waiting"
    /\ UNCHANGED <<option, eventQueue, quit, wg, started, wpc, batch, timer,
                   stopCall, nextItem, ppc, pitem, handlers, handled, dispatched,
                   enqueued, atQuit, seen>>

Next ==
    \/ Enqueue
    \/ TryEnqueue
    \/ TryEnqueueRetry
    \/ TryEnqueueReturn
    \/ Start
    \/ \E w \in WorkerIds : WorkBegin(w)
    \/ \E w \in WorkerIds : Receive(w)
    \/ \E w \in WorkerIds : TimerFire(w)
    \/ \E w \in WorkerIds : LingerExpire(w)
    \/ \E w \in WorkerIds : QuitObserved(w)
    \/ \E w \in WorkerIds, err \in BOOLEAN : ProcessReturn(w, err)
    \/ \E w \in WorkerIds : ProcessPanic(w)
    \/ ErrorHandlerDone
    \/ Stop
    \/ SafeStop
    \/ SafeStopPoll
    \/ SafeStopClose
    \/ Wait

Spec == Init /\ [][Next]_vars

\* ------------------------------------------------- vocabulary of the claims
\* The shutdown call has returned to its caller.
Stopped == spc = "returned"

\* Worker loops that are running (between wg.Add(1) and the deferred
\* wg.Done()) or still to run (goroutine created, or restarted by recover).
Running(w) == wpc[w] \in {"select", "drain"} \cup Processing
ToRun(w) == wpc[w] = "spawned"

NoFailure == Failures = 0
NoPanic == \A c \in Calls : dispatched[c[1]][c[2]].result # "panic"
LingerCalls == {c \in Calls : dispatched[c[1]][c[2]].path = "linger"}

\* How many times item i has been passed to the batch handler.
Occurrences(i) ==
    Cardinality(UNION {{<<c, j>> : j \in {j \in 1..Len(dispatched[c[1]][c[2]].items) :
                                          dispatched[c[1]][c[2]].items[j] = i}} :
                       c \in Calls})

CeilDiv(n, b) == (n + b - 1) \div b

\* SafeStop() has returned in a run where every call submitting an item was
\* made, and had returned, before SafeStop() was called, and no handler call
\* failed.
DrainedRun ==
    /\ stopCall = "SafeStop"
    /\ Stopped
    /\ "late" \notin seen
    /\ NoFailure

\* ------------------------------------------------------------------ claims
\* C1: when Stop() has returned (no handler having panicked), no worker loop
\* is still running or still to run.
C1_StopWaitsForWorkers ==
    (stopCall = "Stop" /\ Stopped /\ NoPanic)
        => \A w \in Workers : ~Running(w) /\ ~ToRun(w)

\* C2: the completion counter counts every running worker loop, every
\* batchProcess call in progress and every error-handler goroutine that has
\* not finished, so that no error handler is still running once Stop() or
\* SafeStop() has returned.
C2_ErrorHandlersCounted ==
    /\ wg >= Cardinality({w \in Workers : Running(w)})
             + Cardinality({w \in Workers : wpc[w] \in Processing})
             + handlers
    /\ Stopped => handlers = 0

\* C3: when SafeStop() returns in a run where no item was submitted after the
\* call and no handler call failed, every item that was placed in the queue
\* has been passed to the batch handler exactly once, and nothing else has.
C3_SafeStopDispatchesAll ==
    DrainedRun =>
        \A i \in Items :
            Occurrences(i) = IF i \in SeqToSet(enqueued) THEN 1 ELSE 0

C3_Witness ==
    /\ DrainedRun
    /\ option.Workers = 2
    /\ Len(enqueued) = MaxItems
    /\ \A w \in Workers : dispatched[w] # <<>>

\* C4: once the shutdown call has returned, no step calls the batch handler.
C4_NoDispatchAfterStopped ==
    [][Stopped => \A w \in WorkerIds : Len(dispatched'[w]) = Len(dispatched[w])]_vars

\* C5: every batch passed to the batch handler holds between 1 and
\* option.BatchSize items.
C5_BatchLength ==
    \A c \in Calls :
        /\ 1 <= Len(dispatched[c[1]][c[2]].items)
        /\ Len(dispatched[c[1]][c[2]].items) <= option.BatchSize

\* A full batch went out on the size path and a partial one on the quit path.
C5_Witness ==
    /\ option.BatchSize >= 2
    /\ \E c \in Calls : /\ dispatched[c[1]][c[2]].path = "size"
                         /\ Len(dispatched[c[1]][c[2]].items) = option.BatchSize
    /\ \E c \in Calls : /\ dispatched[c[1]][c[2]].path = "quit"
                         /\ Len(dispatched[c[1]][c[2]].items) = 1

\* C6 as claimed: an item that is in the queue when Stop() closes quit stays
\* in the queue: no worker receives it.
C6_QueuedAtQuitNeverReceived ==
    stopCall = "Stop" => atQuit \subseteq SeqToSet(eventQueue)

\* C6 amended: a worker that takes the quit case leaves the queue alone,
\* passes exactly the batch it holds to the batch handler (or exits at once
\* when it holds none), and once it has exited it receives and dispatches
\* nothing; an item that was queued when Stop() closed quit is still queued,
\* or a worker's select has received it and it is in that worker's batch or
\* has been dispatched.
C6_QuitStep(w) ==
    (wpc[w] = "select" /\ wpc'[w] \in {"process_quit", "done"}) =>
        /\ eventQueue' = eventQueue
        /\ batch'[w] = batch[w]
        /\ wpc'[w] = "process_quit" =>
              /\ batch[w] # <<>>
              /\ Len(dispatched'[w]) = Len(dispatched[w]) + 1
              /\ dispatched'[w][Len(dispatched'[w])].items = batch[w]
        /\ wpc'[w] = "done" =>
              /\ batch[w] = <<>>
              /\ dispatched'[w] = dispatched[w]

C6_Exited(w) ==
    wpc[w] = "done" =>
        /\ wpc'[w] = "done"
        /\ batch'[w] = batch[w]
        /\ dispatched'[w] = dispatched[w]

C6_QuitFlushesOwnBatch ==
    /\ [](stopCall = "Stop" =>
            \A i \in atQuit :
                \/ i \in SeqToSet(eventQueue)
                \/ \E w \in Workers : i \in SeqToSet(batch[w])
                \/ Occurrences(i) >= 1)
    /\ [][\A w \in WorkerIds : C6_QuitStep(w) /\ C6_Exited(w)]_vars

\* Stop() was called with items queued; one of them has since been received
\* and a worker has flushed a partial batch on quit and exited.
C6_Witness ==
    /\ stopCall = "Stop"
    /\ \E i \in atQuit : i \notin SeqToSet(eventQueue)
    /\ \E i \in atQuit : i \in SeqToSet(eventQueue)
    /\ \E w \in Workers :
          /\ wpc[w] = "done"
          /\ dispatched[w] # <<>>
          /\ dispatched[w][Len(dispatched[w])].path = "quit"

\* C7 as claimed: after a drain-safe stop of a run without failures the batch
\* handler has been called at most ceil(N/B) times.
C7_AtMostCeil ==
    DrainedRun =>
        Cardinality(Calls) <= CeilDiv(Len(enqueued), option.BatchSize)

\* C7 amended: it has been called at least ceil(N/B) times and at most N
\* times (linger flushes and the partial batches of several workers add
\* calls).
C7_AtLeastCeil ==
    DrainedRun =>
        /\ Cardinality(Calls) >= CeilDiv(Len(enqueued), option.BatchSize)
        /\ Cardinality(Calls) <= Len(enqueued)

C7_Witness ==
    /\ DrainedRun
    /\ option.BatchSize = 2
    /\ Len(enqueued) = 3
    /\ Cardinality(Calls) = 3
    /\ LingerCalls # {}

\* The consecutive chunks of b items of the sequence s, the last one shorter
\* when b does not divide Len(s).
Chunks(s, b) ==
    [k \in 1..CeilDiv(Len(s), b) |->
        SubSeq(s, (k - 1) * b + 1, IF k * b <= Len(s) THEN k * b ELSE Len(s))]

\* C8: with one worker, no linger expiry and no failure, when SafeStop()
\* returns the batches passed to the handler are, in order, the consecutive
\* chunks of BatchSize items of the sequence of items sent to the queue.
C8_ConsecutiveChunks ==
    (DrainedRun /\ option.Workers = 1 /\ LingerCalls = {}) =>
        [k \in 1..Len(dispatched[1]) |-> dispatched[1][k].items]
            = Chunks(enqueued, option.BatchSize)

C8_Witness ==
    /\ DrainedRun /\ option.Workers = 1 /\ LingerCalls = {}
    /\ option.BatchSize = 2
    /\ enqueued = <<1, 2, 3>>
    /\ Len(dispatched[1]) = 2

\* ------------------------------------------------------------- fair runs
\* Every goroutine that can take a step is scheduled, a timer that is armed
\* expires, and every call of the batch handler ends.
Fairness ==
    \A w \in WorkerIds :
        /\ WF_vars(WorkBegin(w))
        /\ WF_vars(Receive(w) \/ LingerExpire(w) \/ QuitObserved(w))
        /\ WF_vars(TimerFire(w))
        /\ WF_vars(ProcessReturn(w, FALSE))

\* The fair runs with the largest batch size (partial batches of every smaller
\* size occur) and an error handler configured.
FairInit == Init /\ option.BatchSize = MaxBatchSize /\ option.ErrorHandler
FairSpec == FairInit /\ [][Next]_vars /\ Fairness

\* C9: a partial batch a worker holds at its select leaves the worker's
\* hands (it is passed to the batch handler); meanwhile the timer is running
\* or has expired, an item appended to a non-empty batch leaves the timer as
\* it was, and the linger case passes the whole batch to the handler once,
\* consumes the expiry and leaves the worker with an empty batch.
C9_Partial(w) ==
    /\ wpc[w] = "select"
    /\ 0 < Len(batch[w])
    /\ Len(batch[w]) < option.BatchSize

C9_Step(w) ==
    /\ (C9_Partial(w) /\ C9_Partial(w)' /\ batch'[w] # batch[w])
          => timer'[w] = timer[w]
    /\ (wpc[w] = "select" /\ wpc'[w] = "process_linger") =>
          /\ C9_Partial(w)
          /\ timer[w] = "fired" /\ timer'[w] = "stopped"
          /\ Len(dispatched'[w]) = Len(dispatched[w]) + 1
          /\ dispatched'[w][Len(dispatched'[w])].items = batch[w]
    /\ (wpc[w] = "process_linger" /\ wpc'[w] = "select") =>
          /\ batch'[w] = <<>>
          /\ timer'[w] = "stopped"
          /\ dispatched'[w] = Return(w, dispatched'[w][Len(dispatched[w])].result)[w]

C9_LingerFlush ==
    /\ \A w \in WorkerIds :
          C9_Partial(w) ~> (wpc[w] \in Processing \/ batch[w] = <<>>)
    /\ [](\A w \in WorkerIds : C9_Partial(w) => timer[w] \in {"armed", "fired"})
    /\ [][\A w \in WorkerIds : C9_Step(w)]_vars

\* A batch of two items, below a batch size of three, went out on the linger
\* path.
C9_Witness ==
    /\ option.BatchSize = 3
    /\ ~quit
    /\ \E c \in LingerCalls : Len(dispatched[c[1]][c[2]].items) = 2

\* Items TryEnqueue has given up on (returned, or is about to return, false).
Dropped ==
    {i \in 1..(nextItem - 1) :
        i \notin SeqToSet(enqueued) /\ ~(ppc = "retry" /\ pitem = i)}

\* C10: TryEnqueue can always take its next step; it gives up (default case)
\* only on a full queue and then leaves the queue as it is; it returns true
\* exactly when its item was sent to the queue and false after a second full
\* queue; and an item it has dropped is in no queue, batch or dispatch.
C10_Step ==
    /\ (ppc = "idle" /\ ppc' = "retry") =>
          QueueFull /\ eventQueue' = eventQueue
    /\ (ppc = "idle" /\ ppc' = "true") =>
          ~QueueFull /\ eventQueue' = Append(eventQueue, pitem')
    /\ (ppc = "retry" /\ ppc' = "true") =>
          ~QueueFull /\ eventQueue' = Append(eventQueue, pitem)
    /\ (ppc = "retry" /\ ppc' = "false") =>
          QueueFull /\ eventQueue' = eventQueue
    /\ ppc' = "false" => ppc \in {"retry", "false"}

C10_TryEnqueue ==
    /\ []((ppc = "idle" /\ nextItem <= MaxItems) => ENABLED TryEnqueue)
    /\ [](ppc = "retry" => ENABLED TryEnqueueRetry)
    /\ [](ppc = "true" => pitem \in SeqToSet(enqueued))
    /\ [](ppc = "false" => pitem \in Dropped)
    /\ [](\A i \in Dropped :
            /\ i \notin SeqToSet(eventQueue)
            /\ \A w \in WorkerIds : i \notin SeqToSet(batch[w])
            /\ Occurrences(i) = 0)
    /\ [][C10_Step]_vars

\* TryEnqueue is about to return false for an item, and an item submitted
\* after it has been dispatched.
C10_Witness ==
    /\ ppc = "false"
    /\ pitem < nextItem - 1
    /\ \E i \in SeqToSet(enqueued) : i > pitem /\ Occurrences(i) = 1

\* The call worker w is in ends in this step with result r.
Ends(w, r) ==
    /\ wpc[w] \in Processing
    /\ dispatched[w][Len(dispatched[w])].result = "running"
    /\ dispatched'[w][Len(dispatched[w])].result = r

\* How many error-handler goroutines were started with the batch items.
HandledWith(items) ==
    Cardinality({j \in 1..Len(handled) : handled[j] = items})

\* C11: when a batch handler call returns an error, the error handler, if one
\* is configured, is started exactly once with the batch of that call (and not
\* at all if none is configured); the step makes no further call of the batch
\* handler, the worker goes on from its select with an empty batch (or exits,
\* on the quit path), and no item of a failed batch is ever passed to the
\* batch handler a second time.
C11_FailStep(w) ==
    Ends(w, "err") =>
        /\ handled' = IF option.ErrorHandler
                         THEN Append(handled, dispatched[w][Len(dispatched[w])].items)
                         ELSE handled
        /\ handlers' = IF option.ErrorHandler THEN handlers + 1 ELSE handlers
        /\ Len(dispatched'[w]) = Len(dispatched[w])
        /\ IF wpc[w] = "process_quit"
              THEN wpc'[w] = "done"
              ELSE wpc'[w] = "select" /\ batch'[w] = <<>>

C11_ErrorHandlerOnce ==
    /\ [][\A w \in WorkerIds : C11_FailStep(w)]_vars
    /\ [][handled' # handled => \E w \in WorkerIds : Ends(w, "err")]_vars
    /\ [](\A c \in Calls :
            dispatched[c[1]][c[2]].result = "err" =>
                /\ HandledWith(dispatched[c[1]][c[2]].items)
                      = IF option.ErrorHandler THEN 1 ELSE 0
                /\ \A i \in SeqToSet(dispatched[c[1]][c[2]].items) :
                      Occurrences(i) = 1)

\* The items of the calls in a worker's history, in order.
RECURSIVE Flatten(_)
Flatten(calls) ==
    IF calls = <<>> THEN <<>> ELSE Head(calls).items \o Flatten(Tail(calls))

\* The items worker w has received and still holds or has dispatched, in the
\* order of its batches (a batch lost to a panic before its dispatch aside).
ReceivedBy(w) ==
    Flatten(dispatched[w]) \o (IF wpc[w] = "select" THEN batch[w] ELSE <<>>)

\* Position of item i in the order of the sends to the queue.
Pos(i) == CHOOSE k \in 1..Len(enqueued) : enqueued[k] = i

\* C12: the queue holds the most recently sent items in the order they were
\* sent; a receive takes the oldest of them and puts it at the end of the
\* worker's batch; so the items of a worker's batches, taken batch after
\* batch, are in the order they were sent to the queue.
C12_ReceiveStep(w) ==
    (wpc[w] = "select" /\ eventQueue' # eventQueue
        /\ Len(eventQueue') < Len(eventQueue) /\ batch'[w] # batch[w]) =>
        /\ eventQueue' = Tail(eventQueue)
        /\ batch'[w] = Append(batch[w], Head(eventQueue))

C12_WorkerFifo ==
    /\ [](eventQueue = SubSeq(enqueued, Len(enqueued) - Len(eventQueue) + 1,
                              Len(enqueued)))
    /\ [](\A w \in WorkerIds :
            \A a, b \in 1..Len(ReceivedBy(w)) :
                a < b => Pos(ReceivedBy(w)[a]) < Pos(ReceivedBy(w)[b]))
    /\ [][\A w \in WorkerIds : C12_ReceiveStep(w)]_vars

\* One worker received the three items, sent in the order 1, 3, 2 (item 2
\* went in on the second attempt of TryEnqueue), in two batches.
C12_Witness ==
    /\ enqueued = <<1, 3, 2>>
    /\ \E w \in Workers :
          /\ ReceivedBy(w) = <<1, 3, 2>>
          /\ Len(dispatched[w]) = 2

Max(a, b) == IF a >= b THEN a ELSE b

\* C13: the queue capacity is the larger of the configured buffer size and
\* the number of workers and never changes; the queue never holds more items
\* than that; Enqueue can send, and its step puts the item at the end of the
\* queue, whenever the queue holds fewer; it cannot proceed while the queue
\* holds exactly that many.
C13_EnqueueStep ==
    /\ option' = option
    /\ (nextItem' = nextItem + 1 /\ ppc' = ppc) =>
          /\ Len(eventQueue) < option.ChannelBufferSize
          /\ eventQueue' = Append(eventQueue, nextItem)

C13_Capacity ==
    /\ [](\A b \in 1..MaxBatchSize, n \in 1..MaxWorkers, c \in 0..MaxBuffer,
             e \in BOOLEAN :
             NewAggregator(b, n, c, e).ChannelBufferSize = Max(c, n))
    /\ [](\E c \in 0..MaxBuffer :
             option.ChannelBufferSize = Max(c, option.Workers))
    /\ [](Len(eventQueue) <= option.ChannelBufferSize)
    /\ []((nextItem <= MaxItems /\ Len(eventQueue) < option.ChannelBufferSize)
             => ENABLED Enqueue)
    /\ [](Len(eventQueue) = option.ChannelBufferSize => ~ENABLED Enqueue)
    /\ [][C13_EnqueueStep]_vars

\* Two workers and a smaller configured buffer: the queue is at its capacity
\* of two with an item still to submit.
C13_Witness ==
    /\ option.Workers = 2
    /\ option.ChannelBufferSize = 2
    /\ Len(eventQueue) = 2
    /\ nextItem <= MaxItems

\* The workers of the pool whose loop is running or about to run.
Live == {w \in Workers : Running(w) \/ ToRun(w)}

\* C14: when a batch handler call panics, the worker is about to run work()
\* again, which begins with an empty batch and a stopped timer; the step
\* leaves the queue and the number of live workers as they were; the
\* restarted worker can begin and, at its select, receive; and no item of the
\* batch of a panicked call is passed to the batch handler again.
C14_PanicStep(w) ==
    /\ Ends(w, "panic") =>
          /\ wpc'[w] = "spawned"
          /\ batch'[w] = <<>>
          /\ timer'[w] = "stopped"
          /\ eventQueue' = eventQueue
          /\ Cardinality(Live') = Cardinality(Live)
          /\ Len(dispatched'[w]) = Len(dispatched[w])
    /\ (wpc[w] = "spawned" /\ wpc'[w] # "spawned") =>
          /\ wpc'[w] = "select"
          /\ batch'[w] = <<>>
          /\ timer'[w] = "stopped"

C14_Restart ==
    /\ [][\A w \in WorkerIds : C14_PanicStep(w)]_vars
    /\ [](\A w \in Workers :
            /\ wpc[w] = "spawned" => ENABLED WorkBegin(w)
            /\ (wpc[w] = "select" /\ eventQueue # <<>>) => ENABLED Receive(w))
    /\ [](\A c \in Calls :
            dispatched[c[1]][c[2]].result = "panic" =>
                \A i \in SeqToSet(dispatched[c[1]][c[2]].items) :
                    Occurrences(i) = 1)

\* A worker whose handler call panicked has since received a later item and
\* a call with it has returned.
C14_Witness ==
    \E w \in Workers :
        \E k \in 1..Len(dispatched[w]) :
            /\ dispatched[w][k].result = "panic"
            /\ k < Len(dispatched[w])
            /\ dispatched[w][Len(dispatched[w])].result = "ok"

\* C15: when the call of a size-threshold dispatch returns, the worker is at
\* its select again with an empty batch and a stopped timer, whatever the
\* batch size; no worker is ever blocked on the timer channel.
C15_SizeReturn(w) ==
    (wpc[w] = "process_size" /\ (Ends(w, "ok") \/ Ends(w, "err"))) =>
        /\ wpc'[w] = "select"
        /\ batch'[w] = <<>>
        /\ timer'[w] = "stopped"

C15_SizeDispatchResets ==
    /\ [][\A w \in WorkerIds : C15_SizeReturn(w)]_vars
    /\ [](\A w \in WorkerIds : wpc[w] # "drain")

\* Items that have been received from the queue.
Received == SeqToSet(enqueued) \ SeqToSet(eventQueue)

\* C16: a worker that takes the quit case with a non-empty batch passes that
\* batch to the batch handler once, leaves the queue alone, and after the
\* call it exits; an exited worker stays so.  Absent panics, every received
\* item is in the batch of a worker at its select or has been passed to the
\* batch handler exactly once, never both, and when Stop() or SafeStop()
\* returns every received item has been passed exactly once.
C16_QuitStep(w) ==
    /\ (wpc[w] = "select" /\ batch[w] # <<>>
           /\ wpc'[w] \in {"process_quit", "done"}) =>
          /\ quit
          /\ wpc'[w] = "process_quit"
          /\ eventQueue' = eventQueue
          /\ dispatched'[w] = Append(dispatched[w],
                 [items |-> batch[w], path |-> "quit", result |-> "running"])
    /\ (wpc[w] = "process_quit" /\ (Ends(w, "ok") \/ Ends(w, "err"))) =>
          /\ wpc'[w] = "done"
          /\ eventQueue' = eventQueue
          /\ Len(dispatched'[w]) = Len(dispatched[w])
    /\ wpc[w] = "done" => (wpc'[w] = "done" /\ dispatched'[w] = dispatched[w])

C16_QuitFlushOnce ==
    /\ [][\A w \in WorkerIds : C16_QuitStep(w)]_vars
    /\ [](NoPanic =>
            \A i \in Received :
                Occurrences(i)
                  + Cardinality({w \in Workers :
                        wpc[w] = "select" /\ i \in SeqToSet(batch[w])}) = 1)
    /\ [][(~Stopped /\ Stopped' /\ NoPanic') =>
            \A i \in Received' : Occurrences(i)' = 1]_vars

\* Stop() has returned, after two workers each flushed a batch on quit.
C16_Witness ==
    /\ Stopped
    /\ NoPanic
    /\ option.Workers = 2
    /\ \A w \in Workers :
          /\ wpc[w] = "done"
          /\ dispatched[w] # <<>>
          /\ dispatched[w][Len(dispatched[w])].path = "quit"

\* C17: SafeStop() closes quit only from the position it reaches by finding
\* the queue empty, and every step into that position sees an empty queue;
\* a test that finds items in the queue leaves SafeStop() polling with quit
\* open; while it polls quit is open, and it has returned only with quit
\* closed.
C17_Step ==
    /\ (~quit /\ quit' /\ stopCall' = "SafeStop") => spc = "close"
    /\ (spc # "close" /\ spc' = "close") => Len(eventQueue) = 0
    /\ (spc \in {"idle", "poll"} /\ stopCall' = "SafeStop"
           /\ Len(eventQueue) # 0) =>
          (spc' = "poll" /\ quit' = quit)

C17_SafeStopObservesEmpty ==
    /\ [][C17_Step]_vars
    /\ []((stopCall = "SafeStop" /\ spc = "poll") => ~quit)
    /\ []((stopCall = "SafeStop" /\ Stopped) => quit)

\* SafeStop() is polling a queue that holds items and that no worker will
\* empty: every worker is blocked or has not begun.
C17_Witness ==
    /\ stopCall = "SafeStop"
    /\ spc = "poll"
    /\ eventQueue # <<>>
    /\ ~quit
    /\ \A w \in Workers : wpc[w] \in {"drain", "spawned"}
    /\ \E w \in Workers : wpc[w] = "drain"

\* Worker w is inside a call of the batch handler that has not returned.
InCall(w) ==
    /\ wpc[w] \in Processing
    /\ dispatched[w][Len(dispatched[w])].result = "running"

\* C18: while a worker is inside a call of the batch handler, every other
\* worker can take each case of its select that is ready (receive an item,
\* flush on the linger expiry, observe quit) and a worker still to begin can
\* begin; and a step of another worker leaves the calling worker's position,
\* batch and call history as they are.
C18_OtherStep(w, v) ==
    (InCall(w) /\ w # v
        /\ <<wpc[v], batch[v], dispatched[v]>>'
              # <<wpc[v], batch[v], dispatched[v]>>) =>
        <<wpc[w], batch[w], dispatched[w]>>' = <<wpc[w], batch[w], dispatched[w]>>

C18_DispatchBlocksOneWorker ==
    /\ [](\A w, v \in Workers :
            (InCall(w) /\ w # v) =>
                /\ (wpc[v] = "select" /\ eventQueue # <<>>) => ENABLED Receive(v)
                /\ (wpc[v] = "select" /\ timer[v] = "fired")
                      => ENABLED LingerExpire(v)
                /\ (wpc[v] = "select" /\ quit) => ENABLED QuitObserved(v)
                /\ wpc[v] = "spawned" => ENABLED WorkBegin(v))
    /\ [][\A w, v \in WorkerIds : C18_OtherStep(w, v)]_vars

\* Worker 1 is inside the call for the batch of items 1 and 2; worker 2 has
\* meanwhile received item 3, sent after them, and its call for it has
\* returned.
C18_Witness ==
    /\ option.BatchSize = 2
    /\ enqueued = <<1, 2, 3>>
    /\ InCall(1)
    /\ dispatched[1][1].items = <<1, 2>>
    /\ Len(dispatched[2]) = 1
    /\ dispatched[2][1].items = <<3>>
    /\ dispatched[2][1].result = "ok"

\* C19: with a batch size of at least two, a worker at its select has its
\* timer running or expired exactly when its batch is not empty, and no step
\* takes the linger case with an empty batch.
C19_LingerStepEmpty(w) ==
    /\ wpc[w] = "select"
    /\ batch[w] = <<>>
    /\ timer[w] = "fired"
    /\ timer'[w] = "stopped"

C19_TimerIffBatch ==
    /\ [](option.BatchSize >= 2 =>
            \A w \in Workers :
                wpc[w] = "select" =>
                    (timer[w] \in {"armed", "fired"} <=> batch[w] # <<>>))
    /\ [][option.BatchSize >= 2 =>
            \A w \in WorkerIds : ~C19_LingerStepEmpty(w)]_vars

\* After a size-threshold dispatch and its reset a worker holds the next
\* item at its select and the timer has expired.
C19_Witness ==
    /\ option.BatchSize >= 2
    /\ \E w \in Workers :
          /\ wpc[w] = "select"
          /\ batch[w] # <<>>
          /\ timer[w] = "fired"
          /\ dispatched[w] # <<>>
          /\ dispatched[w][1].path = "size"

\* C20: no item has been passed to the batch handler more than once, within
\* one batch or over several, and every item passed was sent to the queue
\* before.
C20_AtMostOnce ==
    /\ \A i \in Items :
          /\ Occurrences(i) <= 1
          /\ Occurrences(i) = 1 => i \in SeqToSet(enqueued)
    /\ \A c \in Calls : SeqToSet(dispatched[c[1]][c[2]].items) \subseteq Items

\* A run with a dropped item, a linger flush, a panic and a fast stop, in
\* which two workers have called the batch handler.
C20_Witness ==
    /\ Dropped # {}
    /\ LingerCalls # {}
    /\ ~NoPanic
    /\ stopCall = "Stop"
    /\ \A w \in WorkerIds : dispatched[w] # <<>>
====
